---- MODULE Spec2Model ----
(***************************************************************************)
(* A model of the local RAG system: the Obsidian vault loader, the        *)
(* recursive character chunker as the ingestion entry points configure    *)
(* it, the two ingestion entry points writing to the Chroma collection,   *)
(* and the interactive query loop with its retrieval chain.               *)
(*                                                                         *)
(* Strings are sequences of tokens.  In document texts a token is one     *)
(* character; in vault paths a token is an atomic piece of the path       *)
(* ("Daily/", a date, a name, an extension).                              *)
(***************************************************************************)
EXTENDS Integers, Sequences, FiniteSets, TLC

VARIABLES
    ldIn,       \* loader run: the call made and the vault server's answers
    ldOut,      \* loader run: what load_from_path / load_all_vault returned
    ckIn,       \* chunker run: text and configuration
    ckOut,      \* chunker run: the chunks produced
    index,      \* the persisted Chroma collection: a sequence of records
    report,     \* what the last ingestion run did and printed
    pc,         \* query loop: position of main()
    screen,     \* query loop: what the last iteration printed
    prompt      \* query loop: the last prompt handed to the llm

vars == <<ldIn, ldOut, ckIn, ckOut, index, report, pc, screen, prompt>>

---------------------------------------------------------------------------
(* Bounds of the model *)

\* longest vault listing the loader specification enumerates
MaxListing == 2
\* longest vault listing an ingestion run sees
MaxVault == 1
\* most records the collection holds during ingestion
MaxIndex == 2
\* longest document text the chunker specification enumerates
MaxLen == 5
\* most records in the collection the query loop runs on
MaxStored == 2
\* largest chunk_size the chunker specification enumerates
MaxChunkSize == 3

---------------------------------------------------------------------------
(* Generic sequence helpers *)

SeqsUpTo(S, n) == UNION {[1..k -> S] : k \in 0..n}

\* str.startswith
StartsWith(s, p) == Len(p) <= Len(s) /\ SubSeq(s, 1, Len(p)) = p

\* str.endswith
EndsWith(s, p) ==
    Len(p) <= Len(s) /\ SubSeq(s, Len(s) - Len(p) + 1, Len(s)) = p

---------------------------------------------------------------------------
(* The vault server, as the loader sees it *)

VaultName == "vault"

Dates == {"1", "2"}

\* f"Daily/{today_date}"
DailyPrefix(d) == <<"Daily/", d>>

Paths ==
    { <<"Daily/", "1", ".md">>,
      <<"Notes/", "a", ".md">>,
      <<"Daily/", "1", ".txt">> }

\* page contents the server can hold
Contents == { <<>>, <<"a">>, <<"b">> }

\* the answer to GET /vault/read?file=...: the request raises, or a response
\* with a status and a body that either holds "content" or does not
Reads ==
    { [kind |-> "raise", status |-> 0, hasContent |-> FALSE, content |-> <<>>],
      [kind |-> "resp", status |-> 404, hasContent |-> FALSE, content |-> <<>>],
      [kind |-> "resp", status |-> 200, hasContent |-> FALSE, content |-> <<>>] }
    \cup
    { [kind |-> "resp", status |-> 200, hasContent |-> TRUE, content |-> c] :
        c \in Contents }

NoRead == [kind |-> "raise", status |-> 0, hasContent |-> FALSE, content |-> <<>>]

\* one element of the listing, with the server's answer to a read of it; an
\* element without a usable "path" key is malformed
Entries ==
    { [hasPath |-> TRUE, path |-> p, read |-> r] : p \in Paths, r \in Reads }
    \cup
    { [hasPath |-> FALSE, path |-> <<>>, read |-> NoRead] }

\* the answer to GET /vault: the request raises (backend unreachable), or a
\* response with a status and a body that parses to a list or does not
Responses(n) ==
    { [kind |-> "raise", status |-> 0, json |-> FALSE, files |-> <<>>],
      [kind |-> "resp", status |-> 500, json |-> FALSE, files |-> <<>>],
      [kind |-> "resp", status |-> 200, json |-> FALSE, files |-> <<>>] }
    \cup
    { [kind |-> "resp", status |-> 200, json |-> TRUE, files |-> fs] :
        fs \in SeqsUpTo(Entries, n) }

---------------------------------------------------------------------------
(* obsidian_loader.py *)

Document(content, path) ==
    [page_content |-> content,
     metadata |-> [source |-> path, vault |-> VaultName,
                   type |-> "documentation"]]

\* a filter that forgets the folder prefix
Selected_AnyFolder(file, folder_path) == EndsWith(file.path, <<".md">>)

\* the condition of line 40, for an element that has a "path"
Selected(file, folder_path) ==
    StartsWith(file.path, folder_path) /\ EndsWith(file.path, <<".md">>)

\* the loop of lines 39-62 from the i-th element on.  exc: an exception left
\* the loop (an element without "path" at line 40, outside the inner try)
RECURSIVE LoadLoop(_, _, _, _, _)
LoadLoop(files, i, folder_path, documents, log) ==
    IF i > Len(files) THEN [exc |-> FALSE, documents |-> documents, log |-> log]
    ELSE LET file == files[i] IN
      IF ~file.hasPath
      THEN [exc |-> TRUE, documents |-> documents, log |-> log]
      ELSE IF ~Selected(file, folder_path)
      THEN LoadLoop(files, i + 1, folder_path, documents, log)
      ELSE IF file.read.kind = "raise"
      THEN LoadLoop(files, i + 1, folder_path, documents,
                    Append(log, <<"Error loading", file.path>>))
      ELSE IF file.read.status # 200
      THEN LoadLoop(files, i + 1, folder_path, documents, log)
      ELSE IF ~file.read.hasContent
      THEN LoadLoop(files, i + 1, folder_path, documents,
                    Append(log, <<"Error loading", file.path>>))
      ELSE LoadLoop(files, i + 1, folder_path,
                    Append(documents, Document(file.read.content, file.path)),
                    Append(log, <<"Loaded", file.path>>))

\* the body of the outer try, lines 25-64
LoadBody(folder_path, response) ==
    IF response.kind = "raise"
    THEN [exc |-> TRUE, returned |-> <<>>, log |-> <<>>]
    ELSE IF response.status # 200
    THEN [exc |-> FALSE, returned |-> <<>>,
          log |-> << <<"Error connecting to Obsidian", response.status>> >>]
    ELSE IF ~response.json
    THEN [exc |-> TRUE, returned |-> <<>>, log |-> <<>>]
    ELSE LET r == LoadLoop(response.files, 1, folder_path, <<>>, <<>>) IN
         [exc |-> r.exc, returned |-> r.documents, log |-> r.log]

\* a loader without the handler of lines 66-68
load_from_path_unguarded(folder_path, response) ==
    LET b == LoadBody(folder_path, response) IN
    [raised |-> b.exc, documents |-> b.returned, log |-> b.log]

load_from_path(folder_path, response) ==
    LET b == LoadBody(folder_path, response) IN
    IF b.exc
    THEN [raised |-> FALSE, documents |-> <<>>,
          log |-> Append(b.log, <<"Error">>)]
    ELSE [raised |-> FALSE, documents |-> b.returned, log |-> b.log]

load_all_vault(response) == load_from_path(<<>>, response)

---------------------------------------------------------------------------
(* The loader specification: one call on one state of the vault server *)

NotCalled == [raised |-> FALSE, documents |-> <<>>, log |-> <<>>]

Idle == [call |-> "none"]

InitOthersForLoader ==
    /\ ckIn = Idle /\ ckOut = <<>>
    /\ index = <<>> /\ report = Idle
    /\ pc = "off" /\ screen = <<>> /\ prompt = <<>>

InitLoader ==
    /\ ldIn \in [call : {"pending"},
                 folder_path : {<<>>} \cup {DailyPrefix(d) : d \in Dates},
                 response : Responses(MaxListing)]
    /\ ldOut = NotCalled
    /\ InitOthersForLoader

CallLoadFromPath ==
    /\ ldIn.call = "pending"
    /\ ldIn' = [ldIn EXCEPT !.call = "load_from_path"]
    /\ ldOut' = load_from_path(ldIn.folder_path, ldIn.response)
    /\ UNCHANGED <<ckIn, ckOut, index, report, pc, screen, prompt>>

CallLoadAllVault ==
    /\ ldIn.call = "pending"
    /\ ldIn.folder_path = <<>>
    /\ ldIn' = [ldIn EXCEPT !.call = "load_all_vault"]
    /\ ldOut' = load_all_vault(ldIn.response)
    /\ UNCHANGED <<ckIn, ckOut, index, report, pc, screen, prompt>>

NextLoader == CallLoadFromPath \/ CallLoadAllVault

SpecLoader == InitLoader /\ [][NextLoader]_vars

---------------------------------------------------------------------------
(* Claims about the loader, checked under SpecLoader *)

LoaderCalled == ldIn.call \in {"load_from_path", "load_all_vault"}

ListingOk ==
    ldIn.response.kind = "resp" /\ ldIn.response.status = 200
    /\ ldIn.response.json

AllWellFormed == \A i \in 1..Len(ldIn.response.files) : ldIn.response.files[i].hasPath

\* "path starts with prefix and ends with .md", as the claims word it
PathWanted(f) ==
    /\ f.hasPath
    /\ Len(ldIn.folder_path) <= Len(f.path)
    /\ \A k \in 1..Len(ldIn.folder_path) : f.path[k] = ldIn.folder_path[k]
    /\ Len(f.path) >= 1 /\ f.path[Len(f.path)] = ".md"

ReadIs200(f) == f.read.kind = "resp" /\ f.read.status = 200

ReadGood(f) == ReadIs200(f) /\ f.read.hasContent

WantedAndGood(f) == PathWanted(f) /\ ReadGood(f)

WantedAnd200(f) == PathWanted(f) /\ ReadIs200(f)

\* the returned list is exactly the entries of sel, in order, each Document
\* carrying the file's content and its path as metadata.source
ReturnedIs(sel) ==
    /\ Len(ldOut.documents) = Len(sel)
    /\ \A i \in 1..Len(sel) :
        /\ ldOut.documents[i].metadata.source = sel[i].path
        /\ ldOut.documents[i].page_content = sel[i].read.content

\* C3 (as claimed): when the listing itself succeeded, a failure on one listed
\* file (request exception, non-200 read, malformed read body, malformed
\* listing entry) costs that file only: every file that loads successfully,
\* before or after the bad one, is in the returned list.
C3_BadFileSkippedOnly ==
    (LoaderCalled /\ ListingOk) =>
        ReturnedIs(SelectSeq(ldIn.response.files, WantedAndGood))

\* C6: load_from_path never raises to its caller; when the listing request
\* raises or answers with a non-200 status it returns the empty list and has
\* logged the cause.
C6_LoaderFailsSoft ==
    LoaderCalled =>
        /\ ~ldOut.raised
        /\ (ldIn.response.kind = "raise" \/ ldIn.response.status # 200) =>
              (ldOut.documents = <<>> /\ ldOut.log # <<>>)

C6_Witness ==
    /\ ldIn.call = "load_from_path"
    /\ ldIn.response.kind = "raise"
    /\ ldOut.documents = <<>> /\ ldOut.log = << <<"Error">> >>

\* C10 (as claimed): with a successful listing of well-formed entries, the
\* returned list is exactly one Document per listed file whose path starts
\* with the prefix, ends with ".md" and whose read returned status 200, in
\* listing order, with metadata.source the file's path.
C10_OnePerStatus200 ==
    (LoaderCalled /\ ListingOk /\ AllWellFormed) =>
        /\ Len(ldOut.documents)
             = Len(SelectSeq(ldIn.response.files, WantedAnd200))
        /\ \A i \in 1..Len(ldOut.documents) :
             ldOut.documents[i].metadata.source
               = SelectSeq(ldIn.response.files, WantedAnd200)[i].path

\* C10 (amended): with a successful listing of well-formed entries, the
\* returned list is exactly one Document per listed file whose path starts
\* with the prefix, ends with ".md" and whose read returned status 200 with a
\* body holding "content", in listing order, with metadata.source the file's
\* path; load_all_vault() returns what load_from_path("") returns.
C10_OnePerGoodRead ==
    (LoaderCalled /\ ListingOk /\ AllWellFormed) =>
        ReturnedIs(SelectSeq(ldIn.response.files, WantedAndGood))

C10_Witness ==
    /\ ldIn.call = "load_all_vault"
    /\ ListingOk /\ AllWellFormed
    /\ Len(ldIn.response.files) = 2
    /\ Len(ldOut.documents) = 1
    /\ \E i \in 1..2 : PathWanted(ldIn.response.files[i])
                        /\ ~ReadGood(ldIn.response.files[i])

---------------------------------------------------------------------------
(* RecursiveCharacterTextSplitter, as rag_setup.py and add_to_memory.py     *)
(* construct it: length in characters, separators kept at the start of the  *)
(* piece that follows them, chunks stripped of surrounding whitespace.      *)

NL == "\n"

Whitespace == {" ", NL}

\* separators=["\n\n", "\n", " ", ""] of rag_setup.py
SetupSeparators == << <<NL, NL>>, <<NL>>, <<" ">>, <<>> >>

\* add_to_memory.py passes no separators: the splitter's default list
DefaultSeparators == << <<NL, NL>>, <<NL>>, <<" ">>, <<>> >>

\* a separator list that stops at the word space
SeparatorsFor_NoCharFallback(entry) == << <<NL, NL>>, <<NL>>, <<" ">> >>

SeparatorsFor(entry) ==
    IF entry = "setup" THEN SetupSeparators ELSE DefaultSeparators

\* re.search of a literal in text
RECURSIVE Contains(_, _)
Contains(text, sep) ==
    IF Len(text) < Len(sep) THEN FALSE
    ELSE StartsWith(text, sep) \/ Contains(Tail(text), sep)

\* the pieces of text between the leftmost non-overlapping occurrences of a
\* non-empty literal sep; cur is the piece being read
RECURSIVE Between(_, _, _)
Between(text, sep, cur) ==
    IF text = <<>> THEN <<cur>>
    ELSE IF StartsWith(text, sep)
    THEN <<cur>> \o Between(SubSeq(text, Len(sep) + 1, Len(text)), sep, <<>>)
    ELSE Between(Tail(text), sep, Append(cur, Head(text)))

NonEmpty(s) == s # <<>>

\* _split_text_with_regex with keep_separator=True
SplitKeepingSeparator(text, sep) ==
    IF sep = <<>>
    THEN [i \in 1..Len(text) |-> <<text[i]>>]
    ELSE LET pieces == Between(text, sep, <<>>)
             splits == [i \in 1..Len(pieces) |->
                          IF i = 1 THEN pieces[1] ELSE sep \o pieces[i]]
         IN SelectSeq(splits, NonEmpty)

RECURSIVE LStrip(_)
LStrip(s) ==
    IF s # <<>> /\ Head(s) \in Whitespace THEN LStrip(Tail(s)) ELSE s

RECURSIVE RStrip(_)
RStrip(s) ==
    IF s # <<>> /\ s[Len(s)] \in Whitespace
    THEN RStrip(SubSeq(s, 1, Len(s) - 1)) ELSE s

Strip(s) == RStrip(LStrip(s))

RECURSIVE Join(_, _)
Join(docs, sep) ==
    IF docs = <<>> THEN <<>>
    ELSE IF Len(docs) = 1 THEN docs[1]
    ELSE docs[1] \o sep \o Join(Tail(docs), sep)

\* _join_docs: the chunk, or nothing when it strips to the empty string
JoinDocs(docs, sep) ==
    LET text == Strip(Join(docs, sep)) IN
    IF text = <<>> THEN <<>> ELSE <<text>>

\* the inner while loop of _merge_splits: drop pieces from the front until
\* what is left fits the overlap and leaves room for the next piece
RECURSIVE PopFront(_, _, _, _, _, _)
PopFront(current_doc, total, len, seplen, chunk_size, chunk_overlap) ==
    IF \/ total > chunk_overlap
       \/ /\ total + len + (IF Len(current_doc) > 0 THEN seplen ELSE 0)
               > chunk_size
          /\ total > 0
    THEN PopFront(Tail(current_doc),
                  total - (Len(current_doc[1])
                           + (IF Len(current_doc) > 1 THEN seplen ELSE 0)),
                  len, seplen, chunk_size, chunk_overlap)
    ELSE [current_doc |-> current_doc, total |-> total]

\* _merge_splits from the i-th split on
RECURSIVE MergeLoop(_, _, _, _, _, _, _, _)
MergeLoop(splits, i, sep, chunk_size, chunk_overlap, docs, current_doc, total) ==
    IF i > Len(splits) THEN docs \o JoinDocs(current_doc, sep)
    ELSE
      LET d == splits[i]
          len == Len(d)
          seplen == Len(sep)
          over == total + len + (IF Len(current_doc) > 0 THEN seplen ELSE 0)
                    > chunk_size
          emit == over /\ Len(current_doc) > 0
          docs1 == IF emit THEN docs \o JoinDocs(current_doc, sep) ELSE docs
          kept == IF emit
                  THEN PopFront(current_doc, total, len, seplen,
                                chunk_size, chunk_overlap)
                  ELSE [current_doc |-> current_doc, total |-> total]
          current1 == Append(kept.current_doc, d)
          total1 == kept.total + len + (IF Len(current1) > 1 THEN seplen ELSE 0)
      IN MergeLoop(splits, i + 1, sep, chunk_size, chunk_overlap,
                   docs1, current1, total1)

merge_splits(splits, sep, chunk_size, chunk_overlap) ==
    MergeLoop(splits, 1, sep, chunk_size, chunk_overlap, <<>>, <<>>, 0)

\* the separator _split_text settles on: the first of the list that is empty
\* or occurs in the text, with the separators after it; the last one, with
\* nothing after it, when none does
RECURSIVE PickSeparator(_, _, _)
PickSeparator(text, separators, i) ==
    IF i > Len(separators)
    THEN [separator |-> separators[Len(separators)], rest |-> <<>>]
    ELSE IF separators[i] = <<>>
    THEN [separator |-> <<>>, rest |-> <<>>]
    ELSE IF Contains(text, separators[i])
    THEN [separator |-> separators[i],
          rest |-> SubSeq(separators, i + 1, Len(separators))]
    ELSE PickSeparator(text, separators, i + 1)

\* _split_text: the loop over the splits from the i-th on
RECURSIVE SplitLoop(_, _, _, _, _, _, _)
RECURSIVE split_text_rec(_, _, _, _)
SplitLoop(splits, i, rest, chunk_size, chunk_overlap, final_chunks, good) ==
    IF i > Len(splits)
    THEN IF good # <<>>
         THEN final_chunks \o merge_splits(good, <<>>, chunk_size, chunk_overlap)
         ELSE final_chunks
    ELSE
      LET s == splits[i] IN
      IF Len(s) < chunk_size
      THEN SplitLoop(splits, i + 1, rest, chunk_size, chunk_overlap,
                     final_chunks, Append(good, s))
      ELSE
        LET merged == IF good # <<>>
                      THEN merge_splits(good, <<>>, chunk_size, chunk_overlap)
                      ELSE <<>>
            deeper == IF rest = <<>> THEN <<s>>
                      ELSE split_text_rec(s, rest, chunk_size, chunk_overlap)
        IN SplitLoop(splits, i + 1, rest, chunk_size, chunk_overlap,
                     final_chunks \o merged \o deeper, <<>>)

split_text_rec(text, separators, chunk_size, chunk_overlap) ==
    LET pick == PickSeparator(text, separators, 1) IN
    SplitLoop(SplitKeepingSeparator(text, pick.separator), 1, pick.rest,
              chunk_size, chunk_overlap, <<>>, <<>>)

split_text(text, separators, chunk_size, chunk_overlap) ==
    split_text_rec(text, separators, chunk_size, chunk_overlap)

\* split_documents: every document's chunks, in order, each carrying the
\* document's metadata
RECURSIVE split_documents(_, _, _, _)
split_documents(documents, separators, chunk_size, chunk_overlap) ==
    IF documents = <<>> THEN <<>>
    ELSE LET doc == Head(documents)
             texts == split_text(doc.page_content, separators,
                                 chunk_size, chunk_overlap)
         IN [i \in 1..Len(texts) |->
                [page_content |-> texts[i], metadata |-> doc.metadata]]
            \o split_documents(Tail(documents), separators,
                               chunk_size, chunk_overlap)

---------------------------------------------------------------------------
(* The chunker specification: one split of one text under one configuration *)

Chars == {"a", "b", " ", NL}

InitChunker ==
    /\ ckIn \in { c \in [call : {"pending"},
                         entry : {"setup", "add"},
                         text : SeqsUpTo(Chars, MaxLen),
                         chunk_size : 1..MaxChunkSize,
                         chunk_overlap : 0..MaxChunkSize] :
                  c.chunk_overlap < c.chunk_size }
    /\ ckOut = <<>>
    /\ ldIn = Idle /\ ldOut = NotCalled
    /\ index = <<>> /\ report = Idle
    /\ pc = "off" /\ screen = <<>> /\ prompt = <<>>

SplitText ==
    /\ ckIn.call = "pending"
    /\ ckIn' = [ckIn EXCEPT !.call = "split_text"]
    /\ ckOut' = split_text(ckIn.text, SeparatorsFor(ckIn.entry),
                           ckIn.chunk_size, ckIn.chunk_overlap)
    /\ UNCHANGED <<ldIn, ldOut, index, report, pc, screen, prompt>>

NextChunker == SplitText

SpecChunker == InitChunker /\ [][NextChunker]_vars

\* C7: with chunk_size > 0 and 0 <= chunk_overlap < chunk_size and the
\* separator lists the entry points use (ending in the empty separator),
\* every chunk produced has at most chunk_size characters.
C7_ChunkWithinSize ==
    ckIn.call = "split_text" =>
        \A i \in 1..Len(ckOut) : Len(ckOut[i]) <= ckIn.chunk_size

\* a word longer than chunk_size was cut at character level into several
\* chunks, the longest of them exactly chunk_size long
C7_Witness ==
    /\ ckIn.call = "split_text"
    /\ ckIn.text = <<"a", "b", "a", "b", " ">>
    /\ ckIn.chunk_size = 3 /\ ckIn.chunk_overlap = 1
    /\ Len(ckOut) >= 2
    /\ \E i \in 1..Len(ckOut) : Len(ckOut[i]) = 3

---------------------------------------------------------------------------
(* rag_setup.py and add_to_memory.py *)

ChunkSize == 1000

ChunkOverlap == 200

\* what the loader can hand an ingestion run
SetupDocuments ==
    { load_all_vault(r).documents : r \in Responses(MaxVault) }

AddDocuments ==
    { load_from_path(DailyPrefix(d), r).documents :
        d \in Dates, r \in Responses(MaxVault) }

\* how the embedding provider and the store behave on n chunks: every chunk
\* is embedded and written, or the call raises after `stored` of them were
\* written (a write of no chunks at all may be refused too)
StoreOutcomes(n) ==
    { [raises |-> FALSE, stored |-> n] }
    \cup
    { [raises |-> TRUE, stored |-> k] : k \in 0..(IF n = 0 THEN 0 ELSE n - 1) }

\* the records a write adds: ids are fresh, nothing already stored is looked
\* up, replaced or deleted.  batch tells the writes apart: the size of the
\* collection when the write began
NewRecords(collection, chunks, k) ==
    [i \in 1..k |->
        [page_content |-> chunks[i].page_content,
         metadata |-> chunks[i].metadata,
         batch |-> Len(collection)]]

\* a write whose failure is swallowed
Write_Swallowing(collection, chunks, outcome) ==
    [raised |-> FALSE, before |-> Len(collection),
     collection |-> collection \o NewRecords(collection, chunks, outcome.stored)]

\* Chroma.from_documents(documents=chunks, ...) on the persisted collection,
\* and Chroma(...).add_documents(chunks): both open the collection of that
\* name and add to it
Write(collection, chunks, outcome) ==
    [raised |-> outcome.raises, before |-> Len(collection),
     collection |-> collection \o NewRecords(collection, chunks, outcome.stored)]

\* a check that never stops the run
NoDocuments_Never(documents) == FALSE

\* `if not documents:`
NoDocuments(documents) == documents = <<>>

NoOpReport(entry) ==
    [call |-> entry, status |-> "noop", documents |-> 0, chunks |-> 0,
     stored |-> 0, embeddings |-> FALSE, store |-> FALSE,
     failed |-> FALSE, raised |-> FALSE, success |-> FALSE]

\* the run after the split: embed, write, report
Finish(entry, documents, chunks, w, outcome) ==
    [report |->
        [call |-> entry,
         status |-> IF w.raised THEN "raised" ELSE "done",
         documents |-> Len(documents),
         chunks |-> Len(chunks),
         stored |-> Len(w.collection) - w.before,
         embeddings |-> TRUE,
         store |-> TRUE,
         failed |-> outcome.raises,
         raised |-> w.raised,
         success |-> ~w.raised],
     collection |-> w.collection]

\* the run from the loader's return on; the same steps in both entry points
Pipeline(entry, documents, chunks, outcome, collection) ==
    IF NoDocuments(documents)
    THEN [report |-> NoOpReport(entry), collection |-> collection]
    ELSE Finish(entry, documents, chunks,
                Write(collection, chunks, outcome), outcome)

\* chunks = splitter.split_documents(documents)
Chunks(entry, documents) ==
    split_documents(documents, SeparatorsFor(entry), ChunkSize, ChunkOverlap)

setup_vector_database(documents, outcome, collection) ==
    Pipeline("setup", documents, Chunks("setup", documents), outcome, collection)

add_new_documents_to_memory(documents, outcome, collection) ==
    Pipeline("add", documents, Chunks("add", documents), outcome, collection)

\* the loader's possible returns, each with the number of chunks it splits to
SetupLoads ==
    { [documents |-> d, chunks |-> Len(Chunks("setup", d))] : d \in SetupDocuments }

AddLoads ==
    { [documents |-> d, chunks |-> Len(Chunks("add", d))] : d \in AddDocuments }

---------------------------------------------------------------------------
(* The ingestion specification: runs of the two entry points, one after    *)
(* the other, on one persisted collection                                  *)

Init ==
    /\ index = <<>>
    /\ report = Idle
    /\ ldIn = Idle /\ ldOut = NotCalled
    /\ ckIn = Idle /\ ckOut = <<>>
    /\ pc = "off" /\ screen = <<>> /\ prompt = <<>>

RunSetup ==
    \E load \in SetupLoads :
      \E outcome \in StoreOutcomes(load.chunks) :
        /\ Len(index) + outcome.stored <= MaxIndex
        /\ \E r \in {setup_vector_database(load.documents, outcome, index)} :
          /\ Len(r.collection) <= MaxIndex
          /\ index' = r.collection
          /\ report' = r.report
          /\ UNCHANGED <<ldIn, ldOut, ckIn, ckOut, pc, screen, prompt>>

RunAdd ==
    \E load \in AddLoads :
      \E outcome \in StoreOutcomes(load.chunks) :
        /\ Len(index) + outcome.stored <= MaxIndex
        /\ \E r \in {add_new_documents_to_memory(load.documents, outcome, index)} :
          /\ Len(r.collection) <= MaxIndex
          /\ index' = r.collection
          /\ report' = r.report
          /\ UNCHANGED <<ldIn, ldOut, ckIn, ckOut, pc, screen, prompt>>

Next == RunSetup \/ RunAdd

Spec == Init /\ [][Next]_vars

Ran == report.call \in {"setup", "add"}

\* C1 (as claimed): whatever runs came before, the collection never holds
\* records of one source written by two different ingestions.
C1_OneIngestionPerSource ==
    \A i, j \in 1..Len(index) :
        index[i].metadata.source = index[j].metadata.source
            => index[i].batch = index[j].batch

\* C2: a run whose loader returned no documents is a no-op: no chunks, no
\* embedding provider constructed or called, the store neither opened nor
\* written (the collection is as it was), no success message.
C2_NoDocumentsIsNoOp ==
    [][ (report'.call \in {"setup", "add"} /\ report'.documents = 0) =>
          /\ index' = index
          /\ report'.status = "noop"
          /\ report'.chunks = 0 /\ report'.stored = 0
          /\ ~report'.embeddings /\ ~report'.store
          /\ ~report'.raised /\ ~report'.success ]_vars

\* a no-op run after a run that stored something: the collection is as the
\* earlier run left it
C2_Witness ==
    /\ report.call = "add" /\ report.status = "noop"
    /\ Len(index) = 1

\* C8 (as claimed): a run that loaded documents but got no chunks out of
\* them ends as a no-op: it neither raises nor reports success.
C8_NoChunksIsNoOp ==
    (Ran /\ report.documents > 0 /\ report.chunks = 0) =>
        /\ report.status = "noop"
        /\ ~report.raised /\ ~report.success

\* C9: when embedding or storing a chunk fails the run raises to its caller
\* and prints no success message; a run that prints its success message has
\* stored every chunk it counted.
C9_NoSuccessOnFailure ==
    Ran =>
        /\ report.failed => (report.raised /\ ~report.success)
        /\ report.success => report.stored = report.chunks

\* the provider failed on the chunk of a one-document run: raised, nothing
\* of it stored, no success message
C9_Witness ==
    /\ Ran /\ report.failed /\ report.raised /\ ~report.success
    /\ report.chunks = 1 /\ report.stored = 0

---------------------------------------------------------------------------
(* rag_main.py *)

\* search_kwargs={"k": 5}
K == 5

NoScreen == [input |-> <<>>, outcome |-> "none", printed |-> <<>>]

NoPrompt == [built |-> FALSE, results |-> <<>>, context |-> <<>>,
             question |-> <<>>]

LowerChar(c) ==
    CASE c = "Q" -> "q" [] c = "U" -> "u" [] c = "I" -> "i" [] c = "T" -> "t"
      [] OTHER -> c

\* str.lower
Lower(s) == [i \in 1..Len(s) |-> LowerChar(s[i])]

Quit == <<"q", "u", "i", "t">>

\* the lines input() can return
Lines ==
    { Quit, <<"Q", "u", "i", "T">>, <<" ", "q", "u", "i", "t", " ">>,
      <<"q", "u", "i", "t", "s">>, <<>>, <<" ">>, <<"h", "i">>, <<"a", "?">> }

\* the similarity search of the retriever: the stored records, at most K of
\* them, in the order of a score the model leaves open
Orderings(recs) ==
    { p \in [1..Len(recs) -> 1..Len(recs)] :
        \A i, j \in 1..Len(recs) : i # j => p[i] # p[j] }

Retrievals(collection) ==
    { [i \in 1..(IF Len(collection) < K THEN Len(collection) ELSE K) |->
          collection[p[i]]] : p \in Orderings(collection) }

\* str() of one Document and of the list the retriever returns
DocRepr(d) ==
    <<"Document(metadata=">> \o d.metadata.source
        \o <<", page_content=">> \o d.page_content \o <<")">>

RECURSIVE ListItems(_)
ListItems(docs) ==
    IF docs = <<>> THEN <<>>
    ELSE IF Len(docs) = 1 THEN DocRepr(docs[1])
    ELSE DocRepr(docs[1]) \o <<", ">> \o ListItems(Tail(docs))

ListRepr(docs) == <<"[">> \o ListItems(docs) \o <<"]">>

\* the marker the design asks for when nothing was retrieved
NoContextMarker == <<"no relevant context found">>

\* {"context": retriever, "question": RunnablePassthrough()} | prompt: the
\* retriever's list is formatted into the {context} slot as it is
BuildPrompt(results, question) ==
    [built |-> TRUE, results |-> results, context |-> ListRepr(results),
     question |-> question]

\* how chain.invoke can end
InvokeOutcomes == {"ok", "retrieval_error", "generation_error"}

\* a loop whose invoke is not inside a try
AfterInvoke_Unhandled(outcome) ==
    IF outcome = "ok"
    THEN [pc |-> "reading", printed |-> <<"Searching", "Assistant">>]
    ELSE [pc |-> "crashed", printed |-> <<"Searching">>]

\* lines 91-98: the try around chain.invoke and the print of the answer
AfterInvoke(outcome) ==
    IF outcome = "ok"
    THEN [pc |-> "reading", printed |-> <<"Searching", "Assistant">>]
    ELSE [pc |-> "reading", printed |-> <<"Searching", "Error">>]

\* the records a collection on disk can hold when the query loop starts
QueryRecords ==
    { [page_content |-> c, batch |-> 0,
       metadata |-> [source |-> <<"Notes/", "a", ".md">>, vault |-> VaultName,
                     type |-> "documentation"]] : c \in {<<"a">>, <<"b">>} }

InitQuery ==
    /\ pc = "start"
    /\ index \in SeqsUpTo(QueryRecords, MaxStored)
    /\ screen = NoScreen
    /\ prompt = NoPrompt
    /\ ldIn = Idle /\ ldOut = NotCalled
    /\ ckIn = Idle /\ ckOut = <<>>
    /\ report = Idle

\* main() up to the loop: the banner, initialize_rag_system, create_rag_chain
StartMain ==
    /\ pc = "start"
    /\ pc' = "reading"
    /\ UNCHANGED <<ldIn, ldOut, ckIn, ckOut, index, report, screen, prompt>>

\* one iteration that ends the loop: the line read is 'quit'
ReadQuit ==
    /\ pc = "reading"
    /\ \E line \in Lines :
        /\ Lower(Strip(line)) = Quit
        /\ screen' = [input |-> line, outcome |-> "none",
                      printed |-> <<"Goodbye!">>]
        /\ pc' = "done"
    /\ UNCHANGED <<ldIn, ldOut, ckIn, ckOut, index, report, prompt>>

\* one iteration on a blank line: continue
ReadBlank ==
    /\ pc = "reading"
    /\ \E line \in Lines :
        /\ Lower(Strip(line)) # Quit
        /\ Strip(line) = <<>>
        /\ screen' = [input |-> line, outcome |-> "none", printed |-> <<>>]
        /\ pc' = "reading"
    /\ UNCHANGED <<ldIn, ldOut, ckIn, ckOut, index, report, prompt>>

\* one iteration on a question: chain.invoke retrieves, builds the prompt
\* and calls the llm; either call can raise
ReadQuestion ==
    /\ pc = "reading"
    /\ \E line \in Lines, outcome \in InvokeOutcomes,
          results \in Retrievals(index) :
        /\ Lower(Strip(line)) # Quit
        /\ Strip(line) # <<>>
        /\ prompt' = IF outcome = "retrieval_error" THEN NoPrompt
                     ELSE BuildPrompt(results, Strip(line))
        /\ screen' = [input |-> line, outcome |-> outcome,
                      printed |-> AfterInvoke(outcome).printed]
        /\ pc' = AfterInvoke(outcome).pc
    /\ UNCHANGED <<ldIn, ldOut, ckIn, ckOut, index, report>>

NextQuery == StartMain \/ ReadQuit \/ ReadBlank \/ ReadQuestion

SpecQuery == InitQuery /\ [][NextQuery]_vars

C5_EmptyRetrievalHasMarker ==
    (prompt.built /\ prompt.results = <<>>) =>
        (prompt.context = NoContextMarker /\ prompt.context # <<>>)

====
